---- MODULE Spec2Model ----
(***************************************************************************)
(* bgdrive-sync: the object store (cmd/object_manager.go) and the sync     *)
(* cycle (syncFiles) that drives it through a worker pool.                 *)
(*                                                                         *)
(* A path is the sequence of its components below the sync root; the root  *)
(* itself (binPath) is the empty sequence.  Every step that takes the      *)
(* store's mutex is one atomic action; a backend command is in flight      *)
(* between the step that issues it and the step that receives its answer.  *)
(***************************************************************************)
EXTENDS Bags, FiniteSets, Integers, Sequences, TLC

VARIABLES
    fs,            \* the local filesystem below the root: path -> [present, mod, size]
    objectMap,     \* om.objectMap: path -> Object (a partial function)
    file,          \* the contents of object_map.json
    pc,            \* where syncFiles is: "sleep", "loop", "wait", "waitDel"
    tr,            \* syncFiles' tr: the bag of WalkResp of the coming pass
    ntr,           \* syncFiles' ntr: the bag of WalkResp appended by locked tasks
    task,          \* the pool's jobs of the current pass, by path
    erw,           \* the pool's error (pool.WithError(&erw))
    passNo,        \* how many resolve passes this cycle has started
    deletedQueue,  \* syncFiles' deletedQueue: path -> copy of its Object
    dtask,         \* the pool's deletion jobs, by path
    result,        \* what the last finished cycle returned: "none", "ok", "err"
    cycle,         \* number of finished cycles
    nextId,        \* the next identifier the backend hands out
    fails,         \* backend commands that have failed so far
    fsOps,         \* filesystem changes made so far
    hist           \* history of the current cycle, read by the properties only

vars == <<fs, objectMap, file, pc, tr, ntr, task, erw, passNo, deletedQueue,
          dtask, result, cycle, nextId, fails, fsOps, hist>>

----------------------------------------------------------------------------
(* Bounds of the model *)

SyncWorker == 2     \* cfg.SyncWorker: jobs the pool runs at once
SyncRetry == 1      \* cfg.SyncRetry: times the pool runs a failed job again
MaxFail == 1        \* backend commands that may fail in a behaviour
MaxFsOps == 1       \* filesystem changes in a behaviour
MaxCycles == 2      \* cycles of main's loop in a behaviour
MaxPasses == 4      \* resolve passes a cycle may start
MaxStamp == 2       \* modification times and sizes range over 1..MaxStamp
LiveMoreFail == 1   \* commands that may fail under SpecLive, beyond MaxFail

----------------------------------------------------------------------------
(* Paths and the filesystem *)

Root == <<>>
Tree == {<<"a">>, <<"a", "b">>, <<"a", "b", "f">>}
Files == {<<"a", "b", "f">>}
Paths == Tree \cup {Root}

Dir(p) == SubSeq(p, 1, Len(p) - 1)
Depth(p) == Len(p)
IsDirPath(p) == p \notin Files

DirStamp == [mod |-> 1, size |-> 1]

Present(f) == {p \in Tree : f[p].present}
FsClosed(f) == \A p \in Present(f) : Dir(p) = Root \/ Dir(p) \in Present(f)
FsStates ==
    {f \in [Tree -> [present : BOOLEAN, mod : 1..MaxStamp, size : 1..MaxStamp]] :
        /\ FsClosed(f)
        /\ \A p \in Tree : IsDirPath(p) \/ ~f[p].present =>
               f[p].mod = DirStamp.mod /\ f[p].size = DirStamp.size}

WalkResp(f, p) ==
    IF p = Root
    THEN [loc |-> Root, modTimeUnix |-> DirStamp.mod, isDir |-> TRUE,
          size |-> DirStamp.size]
    ELSE [loc |-> p, modTimeUnix |-> f[p].mod, isDir |-> IsDirPath(p),
          size |-> f[p].size]

Walk(f) == {WalkResp(f, p) : p \in Present(f) \cup {Root}}

----------------------------------------------------------------------------
(* Objects and the store *)

EmptyId == 0
RootId == 1

NilObject == [GDId |-> EmptyId, GDPId |-> EmptyId, LastMod |-> 0, Size |-> 0]
RootObject == [GDId |-> RootId, GDPId |-> EmptyId, LastMod |-> 0, Size |-> 0]

\* storeObject without the check for an entry that is already there
storeObjectOverwrites(m, key, object) ==
    [map |-> [k \in DOMAIN m \cup {key} |-> IF k = key THEN object ELSE m[k]],
     stored |-> TRUE]

\* storeObject that keeps the entry that is there and still reports stored
storeObjectAlwaysStored(m, key, object) ==
    [map |-> [k \in DOMAIN m \cup {key} |->
                 IF k \in DOMAIN m THEN m[k] ELSE object],
     stored |-> TRUE]

storeObject(m, key, object) ==
    IF key \in DOMAIN m
    THEN [map |-> m, stored |-> FALSE]
    ELSE [map |-> [k \in DOMAIN m \cup {key} |-> IF k = key THEN object ELSE m[k]],
          stored |-> TRUE]

\* deleteObject that leaves the entry where it is
deleteObjectKeeps(m, key) == m

deleteObject(m, key) == [k \in DOMAIN m \ {key} |-> m[k]]

loadObject(m, key) ==
    IF key = Root THEN [object |-> RootObject, loaded |-> TRUE]
    ELSE IF key \in DOMAIN m THEN [object |-> m[key], loaded |-> TRUE]
    ELSE [object |-> NilObject, loaded |-> FALSE]

\* isLocked that takes every object for a placeholder
isLockedAlways(o) == TRUE

\* isLocked that takes a placeholder for a finished object
isLockedNever(o) == FALSE

isLocked(o) == o.GDId = EmptyId

CopyObjects(m) == m

----------------------------------------------------------------------------
(* The pool's jobs.  A job of a resolve pass runs om.Sync(&wrCp); the calls *)
(* of NewObject it is in are its stack, the innermost call last.            *)

Zero == [p \in Paths |-> 0]

NewFrame(loc, h) ==
    [loc |-> loc, pc |-> "load", pOrphan |-> FALSE, cand |-> NilObject,
     early |-> ~h.responded[loc]]

NewTask(wr) == [st |-> "queued", wr |-> wr, tries |-> 0, stack |-> <<>>, obj |-> Root]

Top(stk) == stk[Len(stk)]
Pop(stk) == SubSeq(stk, 1, Len(stk) - 1)
SetTop(stk, f) == [stk EXCEPT ![Len(stk)] = f]

Busy(t) == task[t].st \in {"run", "updchk", "updating"}
Running ==
    Cardinality({t \in DOMAIN task : Busy(t)})
    + Cardinality({p \in DOMAIN dtask : dtask[p] = "deleting"})

AllDone == \A t \in DOMAIN task : task[t].st = "done"

\* The job's stack when it takes its next step inside NewObject: a job the
\* pool has not started yet is started by a free worker.
CurStack(t) ==
    IF task[t].st = "queued" THEN <<NewFrame(task[t].wr.loc, hist)>> ELSE task[t].stack

InNewObject(t, where) ==
    /\ t \in DOMAIN task
    /\ \/ task[t].st = "queued" /\ where = "load" /\ Running < SyncWorker
       \/ task[t].st = "run" /\ Top(task[t].stack).pc = where

\* What the history keeps of the calls of NewObject that return r without
\* having issued the creation command, for the paths whose callers all began
\* before any answer of the backend: whether one of them was deferred (locked
\* or alreadyExisted), and whether one returned anything else but an error.
Rets(h, stk, r) ==
    LET early == {stk[i].loc : i \in {j \in 1..Len(stk) : stk[j].early}} IN
    [h EXCEPT !.deferred = [p \in Paths |-> @[p] \/
                               (p \in early /\ ~r.err /\ (r.loaded \/ r.locked))],
              !.odd = [p \in Paths |-> @[p] \/
                               (p \in early /\ ~r.err /\ ~r.loaded /\ ~r.locked)]]

\* Sync that reports a locked path as one that needs nothing
SyncDropsLocked(wr, r) ==
    IF r.err THEN "err"
    ELSE IF r.locked THEN "unchanged"
    ELSE IF ~r.loaded THEN "created"
    ELSE IF wr.isDir THEN "unchanged"
    ELSE "check"

\* Sync, lines 171-187, on what NewObject returned, and the isDir check of
\* UpdateObjectIfModTimeChanged, lines 190-192: an error, locked, created, or
\* an object that was loaded, which is then checked for a modification unless
\* the walked entry is a directory.  The object is the one NewObject returned.
Sync(wr, r) ==
    IF r.err THEN "err"
    ELSE IF r.locked THEN "locked"
    ELSE IF ~r.loaded THEN "created"
    ELSE IF wr.isDir THEN "unchanged"
    ELSE "check"

\* The job's closure, lines 110-122 of syncFiles, once NewObject has returned
\* r, and the pool: a job that returns an error is run again up to SyncRetry
\* times, and its last error is left in erw.  `base` is the jobs as the step
\* leaves the jobs of the other workers.
Finish(t, base, r) ==
    LET me == base[t]
        done == [me EXCEPT !.st = "done", !.tries = 0, !.stack = <<>>]
        out == Sync(me.wr, r)
    IN
    IF out = "err"
    THEN IF me.tries < SyncRetry
         THEN /\ task' = [base EXCEPT ![t] =
                     [me EXCEPT !.st = "run", !.tries = @ + 1,
                                !.stack = <<NewFrame(me.wr.loc, hist')>>]]
              /\ UNCHANGED <<ntr, erw>>
         ELSE /\ task' = [base EXCEPT ![t] = done]
              /\ erw' = TRUE
              /\ UNCHANGED ntr
    ELSE IF out = "locked"
    THEN /\ task' = [base EXCEPT ![t] = done]
         /\ ntr' = ntr (+) SetToBag({me.wr})
         /\ UNCHANGED erw
    ELSE IF out = "check"
    THEN /\ task' = [base EXCEPT ![t] =
                [me EXCEPT !.st = "updchk", !.stack = <<>>, !.obj = r.obj]]
         /\ UNCHANGED <<ntr, erw>>
    ELSE /\ task' = [base EXCEPT ![t] = done]
         /\ UNCHANGED <<ntr, erw>>

Res(obj, loaded, locked, err) ==
    [obj |-> obj, loaded |-> loaded, locked |-> locked, err |-> err]

\* The object a call's pObj points at: the root's, the parent's entry, or a
\* placeholder that its creator has removed from the map since.
PObj(f) ==
    IF f.pOrphan THEN NilObject ELSE loadObject(objectMap, Dir(f.loc)).object

Bump(f, p) == [f EXCEPT ![p] = @ + 1]

----------------------------------------------------------------------------
(* NewObject, step by step *)

\* lines 100-103: loadObject(loc); an entry that is there is returned as it is
Load(t) ==
    /\ InNewObject(t, "load")
    /\ LET stk == CurStack(t)
           f == Top(stk)
           l == loadObject(objectMap, f.loc)
           base == [task EXCEPT ![t] = [@ EXCEPT !.st = "run", !.stack = stk]]
       IN IF l.loaded
          THEN LET r == Res(f.loc, TRUE, isLocked(l.object), FALSE) IN
               /\ hist' = Rets(hist, stk, r)
               /\ Finish(t, base, r)
          ELSE /\ task' = [base EXCEPT ![t].stack = SetTop(stk, [f EXCEPT !.pc = "loadParent"])]
               /\ UNCHANGED <<ntr, erw, hist>>
    /\ UNCHANGED <<fs, objectMap, file, pc, tr, passNo, deletedQueue, dtask, result,
                   cycle, nextId, fails, fsOps>>

\* lines 106-110: loadObject(d); a parent that is not there is resolved first
LoadParent(t) ==
    /\ InNewObject(t, "loadParent")
    /\ LET stk == task[t].stack
           f == Top(stk)
           l == loadObject(objectMap, Dir(f.loc))
       IN task' = [task EXCEPT ![t].stack =
                     IF l.loaded
                     THEN SetTop(stk, [f EXCEPT !.pc = "isLocked", !.pOrphan = FALSE])
                     ELSE Append(SetTop(stk, [f EXCEPT !.pc = "recurse"]),
                                 NewFrame(Dir(f.loc), hist))]
    /\ UNCHANGED <<fs, objectMap, file, pc, tr, ntr, erw, passNo, deletedQueue, dtask,
                   result, cycle, nextId, fails, fsOps, hist>>

\* lines 120-122: a locked parent defers the path
ParentLocked(t) ==
    /\ InNewObject(t, "isLocked")
    /\ LET stk == task[t].stack
           f == Top(stk)
       IN IF isLocked(PObj(f))
          THEN LET r == Res(Dir(f.loc), FALSE, TRUE, FALSE) IN
               /\ hist' = Rets(hist, stk, r)
               /\ Finish(t, task, r)
          ELSE /\ task' = [task EXCEPT ![t].stack = SetTop(stk, [f EXCEPT !.pc = "stat"])]
               /\ UNCHANGED <<ntr, erw, hist>>
    /\ UNCHANGED <<fs, objectMap, file, pc, tr, passNo, deletedQueue, dtask, result,
                   cycle, nextId, fails, fsOps>>

\* the placeholder without the parent's identifier
PlaceholderNoParent(f) ==
    [GDId |-> EmptyId,
     GDPId |-> EmptyId,
     LastMod |-> IF IsDirPath(f.loc) THEN 0 ELSE fs[f.loc].mod,
     Size |-> fs[f.loc].size]

\* lines 136-141: the placeholder built from the stat result and the parent
Placeholder(f) ==
    [GDId |-> EmptyId,
     GDPId |-> PObj(f).GDId,
     LastMod |-> IF IsDirPath(f.loc) THEN 0 ELSE fs[f.loc].mod,
     Size |-> fs[f.loc].size]

\* lines 124-141: os.Stat(loc); a path that is gone is an error
Stat(t) ==
    /\ InNewObject(t, "stat")
    /\ LET stk == task[t].stack
           f == Top(stk)
       IN IF ~fs[f.loc].present
          THEN LET r == Res(Root, FALSE, FALSE, TRUE) IN
               /\ hist' = Rets(hist, stk, r)
               /\ Finish(t, task, r)
          ELSE /\ task' = [task EXCEPT ![t].stack =
                             SetTop(stk, [f EXCEPT !.pc = "store", !.cand = Placeholder(f)])]
               /\ UNCHANGED <<ntr, erw, hist>>
    /\ UNCHANGED <<fs, objectMap, file, pc, tr, passNo, deletedQueue, dtask, result,
                   cycle, nextId, fails, fsOps>>

\* lines 143-153: storeObject(loc, lockedNObj); the caller that stored the
\* placeholder issues the backend's creation command
Store(t) ==
    /\ InNewObject(t, "store")
    /\ LET stk == task[t].stack
           f == Top(stk)
           s == storeObject(objectMap, f.loc, f.cand)
       IN IF s.stored
          THEN /\ objectMap' = s.map
               /\ task' = [task EXCEPT ![t].stack = SetTop(stk, [f EXCEPT !.pc = "exec"])]
               /\ hist' = [hist EXCEPT !.creates = Bump(@, f.loc),
                                       !.earlyExec = IF f.early THEN Bump(@, f.loc) ELSE @]
               /\ UNCHANGED <<ntr, erw>>
          ELSE LET r == Res(Dir(f.loc), FALSE, TRUE, FALSE) IN
               /\ objectMap' = s.map
               /\ hist' = [Rets(hist, stk, r) EXCEPT
                              !.lostRace[f.loc] = @ \/ f.early]
               /\ Finish(t, task, r)
    /\ UNCHANGED <<fs, file, pc, tr, passNo, deletedQueue, dtask, result, cycle,
                   nextId, fails, fsOps>>

\* the identifier the backend returned is dropped
CompleteKeepsEmpty(m, key, id) == m

\* lines 159-161: updateStoredObject sets the identifier the backend returned
Complete(m, key, id) == [m EXCEPT ![key].GDId = id]

\* lines 153, 159-168: the creation command succeeds
ExecOk(t) ==
    /\ InNewObject(t, "exec")
    /\ LET stk == task[t].stack
           f == Top(stk)
           r == Res(f.loc, FALSE, FALSE, FALSE)
       IN /\ objectMap' = Complete(objectMap, f.loc, nextId)
          /\ nextId' = nextId + 1
          /\ hist' = [hist EXCEPT !.responded[f.loc] = TRUE,
                                  !.created = Bump(@, f.loc)]
          /\ IF Len(stk) = 1
             THEN Finish(t, task, r)
             ELSE /\ task' = [task EXCEPT ![t].stack =
                                SetTop(Pop(stk), [stk[Len(stk) - 1] EXCEPT
                                                     !.pc = "isLocked", !.pOrphan = FALSE])]
                  /\ UNCHANGED <<ntr, erw>>
    /\ UNCHANGED <<fs, file, pc, tr, passNo, deletedQueue, dtask, result, cycle,
                   fails, fsOps>>

\* The calls that hold a pointer to the placeholder of `key` keep it when the
\* entry is removed from the map: its GDId stays empty.
Orphaned(tk, key) ==
    [u \in DOMAIN tk |->
        [tk[u] EXCEPT !.stack =
            [i \in 1..Len(tk[u].stack) |->
                IF tk[u].stack[i].pc = "isLocked" /\ Dir(tk[u].stack[i].loc) = key
                THEN [tk[u].stack[i] EXCEPT !.pOrphan = TRUE]
                ELSE tk[u].stack[i]]]]

\* lines 153-157: the creation command fails and the placeholder is removed
ExecFail(t) ==
    /\ InNewObject(t, "exec")
    /\ fails < MaxFail
    /\ LET stk == task[t].stack
           f == Top(stk)
           r == Res(Root, FALSE, FALSE, TRUE)
       IN /\ objectMap' = deleteObject(objectMap, f.loc)
          /\ hist' = [Rets(hist, Pop(stk), r) EXCEPT
                                  !.responded[f.loc] = TRUE,
                                  !.execFailed = Bump(@, f.loc),
                                  !.created[f.loc] = 0]
          /\ Finish(t, Orphaned(task, f.loc), r)
    /\ fails' = fails + 1
    /\ UNCHANGED <<fs, file, pc, tr, passNo, deletedQueue, dtask, result, cycle,
                   nextId, fsOps>>

----------------------------------------------------------------------------
(* UpdateObjectIfModTimeChanged *)

\* the check with the condition on the size left out
ModifiedByTime(wr, object) ==
    /\ ~wr.isDir
    /\ wr.modTimeUnix > object.LastMod

\* lines 190-197: the update is skipped for a directory, for a modification
\* time that is not later than the stored one, and for an unchanged size
Modified(wr, object) ==
    /\ ~wr.isDir
    /\ ~(wr.modTimeUnix <= object.LastMod \/ wr.size = object.Size)

\* the update that also forgets the parent's identifier
TouchedReparents(m, key, wr) ==
    [m EXCEPT ![key].LastMod = wr.modTimeUnix, ![key].Size = wr.size,
              ![key].GDPId = EmptyId]

\* lines 206-209
Touched(m, key, wr) == [m EXCEPT ![key].LastMod = wr.modTimeUnix, ![key].Size = wr.size]

JobDone(t) == [task EXCEPT ![t] = [@ EXCEPT !.st = "done", !.obj = Root]]

\* lines 189-200: the check, and the update command issued on the object's GDId
UpdChk(t) ==
    /\ t \in DOMAIN task
    /\ task[t].st = "updchk"
    /\ IF Modified(task[t].wr, objectMap[task[t].obj])
       THEN /\ task' = [task EXCEPT ![t].st = "updating"]
            /\ hist' = [hist EXCEPT !.updates = Bump(@, task[t].obj)]
       ELSE /\ task' = JobDone(t)
            /\ UNCHANGED hist
    /\ UNCHANGED <<fs, objectMap, file, pc, tr, ntr, erw, passNo, deletedQueue, dtask,
                   result, cycle, nextId, fails, fsOps>>

\* lines 200, 205-212: the update command succeeds
UpdOk(t) ==
    /\ t \in DOMAIN task
    /\ task[t].st = "updating"
    /\ objectMap' = Touched(objectMap, task[t].obj, task[t].wr)
    /\ task' = JobDone(t)
    /\ hist' = [hist EXCEPT !.updOk = Bump(@, task[t].obj)]
    /\ UNCHANGED <<fs, file, pc, tr, ntr, erw, passNo, deletedQueue, dtask, result,
                   cycle, nextId, fails, fsOps>>

\* a failed update command handed to the pool as the job's last error
UpdFailAborts(t) ==
    /\ t \in DOMAIN task
    /\ task[t].st = "updating"
    /\ fails < MaxFail
    /\ fails' = fails + 1
    /\ task' = JobDone(t)
    /\ erw' = TRUE
    /\ UNCHANGED <<fs, objectMap, file, pc, tr, ntr, passNo, deletedQueue, dtask,
                   result, cycle, nextId, fsOps, hist>>

\* lines 200-203: the update command fails; no update, no error
UpdFail(t) ==
    /\ t \in DOMAIN task
    /\ task[t].st = "updating"
    /\ fails < MaxFail
    /\ fails' = fails + 1
    /\ task' = JobDone(t)
    /\ hist' = [hist EXCEPT !.updFailed[t] =
                   IF task[t].obj = t /\ ~hist.dirty THEN cycle + 1 ELSE @]
    /\ UNCHANGED <<fs, objectMap, file, pc, tr, ntr, erw, passNo, deletedQueue, dtask,
                   result, cycle, nextId, fsOps>>

----------------------------------------------------------------------------
(* syncFiles *)

NoJobs == <<>>

PassHist(h) ==
    [h EXCEPT !.deferred = [p \in Paths |-> FALSE],
              !.odd = [p \in Paths |-> FALSE],
              !.lostRace = [p \in Paths |-> FALSE],
              !.responded = [p \in Paths |-> FALSE],
              !.earlyExec = Zero,
              !.execFailed = Zero]

CycleHist(h) ==
    [PassHist(h) EXCEPT !.creates = Zero, !.updates = Zero, !.updOk = Zero,
                        !.deletes = Zero, !.delIds = Zero,
                        !.delFailed = Zero, !.snap = <<>>,
                        !.store0 = objectMap, !.walk = Walk(fs), !.walk2 = {},
                        !.dirty = FALSE]

\* main's loop, lines 54-58, and syncFiles lines 78-99: the first walk
CycleStart ==
    /\ pc = "sleep"
    /\ cycle < MaxCycles
    /\ tr' = SetToBag(Walk(fs))
    /\ ntr' = EmptyBag
    /\ erw' = FALSE
    /\ passNo' = 0
    /\ pc' = "loop"
    /\ task' = NoJobs
    /\ dtask' = NoJobs
    /\ deletedQueue' = NoJobs
    /\ hist' = CycleHist(hist)
    /\ UNCHANGED <<fs, objectMap, file, result, cycle, nextId, fails, fsOps>>

\* lines 100-123: one job for each entry of tr
JobsOf(b) ==
    [p \in {wr.loc : wr \in BagToSet(b)} |->
        NewTask(CHOOSE wr \in BagToSet(b) : wr.loc = p)]

StartPass ==
    /\ pc = "loop"
    /\ BagToSet(tr) # {}
    /\ passNo < MaxPasses
    /\ task' = JobsOf(tr)
    /\ ntr' = EmptyBag
    /\ passNo' = passNo + 1
    /\ pc' = "wait"
    /\ hist' = PassHist(hist)
    /\ UNCHANGED <<fs, objectMap, file, tr, erw, deletedQueue, dtask, result, cycle,
                   nextId, fails, fsOps>>

\* the next pass fed with what the last one was fed with, and the pending list
NextInputKeepsOld(old, pending) == old (+) pending

\* lines 129-131: the input of the next pass
NextInput(old, pending) == pending

\* the loop going on without the check of erw
PassDoneDespiteError ==
    /\ pc = "wait"
    /\ AllDone
    /\ tr' = ntr
    /\ pc' = "loop"
    /\ task' = NoJobs
    /\ UNCHANGED <<fs, objectMap, file, ntr, erw, passNo, deletedQueue, dtask, result,
                   cycle, nextId, fails, fsOps, hist>>

\* lines 124-132: every job of the pass is done and none left an error
PassDone ==
    /\ pc = "wait"
    /\ AllDone
    /\ ~erw
    /\ tr' = NextInput(tr, ntr)
    /\ pc' = "loop"
    /\ task' = NoJobs
    /\ UNCHANGED <<fs, objectMap, file, ntr, erw, passNo, deletedQueue, dtask, result,
                   cycle, nextId, fails, fsOps, hist>>

\* lines 124-127: every job of the pass is done and one left an error
PassFailed ==
    /\ pc = "wait"
    /\ AllDone
    /\ erw
    /\ result' = "err"
    /\ pc' = "sleep"
    /\ cycle' = cycle + 1
    /\ task' = NoJobs
    /\ hist' = [hist EXCEPT !.quiet = 0]
    /\ UNCHANGED <<fs, objectMap, file, tr, ntr, erw, passNo, deletedQueue, dtask,
                   nextId, fails, fsOps>>

\* the snapshot with nothing taken out of it
GoneAll(m, seen) == m

\* lines 135-144: the entries of the snapshot that the second walk did not meet
Gone(m, seen) == [p \in DOMAIN m \ seen |-> m[p]]

\* lines 135-153: the second walk and one deletion job for each entry left
Reconcile ==
    /\ pc = "loop"
    /\ BagToSet(tr) = {}
    /\ deletedQueue' = Gone(CopyObjects(objectMap), Present(fs) \cup {Root})
    /\ dtask' = [p \in DOMAIN deletedQueue' |-> "queued"]
    /\ pc' = "waitDel"
    /\ hist' = [hist EXCEPT !.walk2 = Present(fs) \cup {Root}, !.snap = objectMap]
    /\ UNCHANGED <<fs, objectMap, file, tr, ntr, task, erw, passNo, result, cycle,
                   nextId, fails, fsOps>>

\* line 238: DeleteObjectGDrive issues the recursive delete on object.GDId
DelStart(p) ==
    /\ p \in DOMAIN dtask
    /\ dtask[p] = "queued"
    /\ Running < SyncWorker
    /\ dtask' = [dtask EXCEPT ![p] = "deleting"]
    /\ hist' = [hist EXCEPT !.deletes = Bump(@, p), !.delIds[p] = deletedQueue[p].GDId]
    /\ UNCHANGED <<fs, objectMap, file, pc, tr, ntr, task, erw, passNo, deletedQueue,
                   result, cycle, nextId, fails, fsOps>>

\* lines 237-239: the answer of the delete command is dropped, the entry removed
DelEnd(p) ==
    /\ p \in DOMAIN dtask
    /\ dtask[p] = "deleting"
    /\ objectMap' = deleteObject(objectMap, p)
    /\ dtask' = [dtask EXCEPT ![p] = "done"]
    /\ UNCHANGED <<fs, file, pc, tr, ntr, task, erw, passNo, deletedQueue, result,
                   cycle, nextId, fsOps>>

DelOk(p) ==
    /\ DelEnd(p)
    /\ hist' = [hist EXCEPT !.created[p] = 0]
    /\ UNCHANGED fails

DelFail(p) ==
    /\ fails < MaxFail
    /\ DelEnd(p)
    /\ hist' = [hist EXCEPT !.created[p] = 0, !.delFailed = Bump(@, p)]
    /\ fails' = fails + 1

\* lines 154-162: the deletion jobs are done; SaveToFile
Persist ==
    /\ pc = "waitDel"
    /\ \A p \in DOMAIN dtask : dtask[p] = "done"
    /\ file' = CopyObjects(objectMap)
    /\ result' = "ok"
    /\ pc' = "sleep"
    /\ cycle' = cycle + 1
    /\ dtask' = NoJobs
    /\ deletedQueue' = NoJobs
    /\ hist' = [hist EXCEPT !.quiet = IF hist.dirty THEN 0 ELSE 1]
    /\ UNCHANGED <<fs, objectMap, tr, ntr, task, erw, passNo, nextId, fails, fsOps>>

----------------------------------------------------------------------------
(* The environment: the filesystem changes under the program *)

\* A change has no effect on a step that does not read the filesystem, so it
\* is placed right before one that does: a walk or a stat.
FsRead ==
    \/ pc = "sleep" /\ cycle < MaxCycles
    \/ pc = "loop" /\ BagToSet(tr) = {}
    \/ \E t \in DOMAIN task : task[t].st = "run" /\ Top(task[t].stack).pc = "stat"

FsChange ==
    /\ fsOps < MaxFsOps
    /\ FsRead
    /\ fsOps' = fsOps + 1
    /\ \E f \in FsStates : f # fs /\ fs' = f
    /\ hist' = [hist EXCEPT !.dirty = TRUE, !.quiet = 0, !.updFailed = Zero]
    /\ UNCHANGED <<objectMap, file, pc, tr, ntr, task, erw, passNo, deletedQueue,
                   dtask, result, cycle, nextId, fails>>

----------------------------------------------------------------------------

InitHist ==
    [deferred |-> [p \in Paths |-> FALSE], odd |-> [p \in Paths |-> FALSE],
     lostRace |-> [p \in Paths |-> FALSE], responded |-> [p \in Paths |-> FALSE], earlyExec |-> Zero,
     execFailed |-> Zero, creates |-> Zero, updates |-> Zero, updOk |-> Zero,
     deletes |-> Zero, delIds |-> Zero, delFailed |-> Zero, snap |-> <<>>, created |-> Zero, store0 |-> <<>>,
     walk |-> {}, walk2 |-> {}, dirty |-> FALSE, quiet |-> 0, updFailed |-> Zero]

Init ==
    /\ fs \in FsStates
    /\ objectMap = <<>>
    /\ file = <<>>
    /\ pc = "sleep"
    /\ tr = EmptyBag
    /\ ntr = EmptyBag
    /\ task = NoJobs
    /\ erw = FALSE
    /\ passNo = 0
    /\ deletedQueue = NoJobs
    /\ dtask = NoJobs
    /\ result = "none"
    /\ cycle = 0
    /\ nextId = RootId + 1
    /\ fails = 0
    /\ fsOps = 0
    /\ hist = InitHist

Next ==
    \/ CycleStart
    \/ StartPass
    \/ \E t \in Paths : Load(t)
    \/ \E t \in Paths : LoadParent(t)
    \/ \E t \in Paths : ParentLocked(t)
    \/ \E t \in Paths : Stat(t)
    \/ \E t \in Paths : Store(t)
    \/ \E t \in Paths : ExecOk(t)
    \/ \E t \in Paths : ExecFail(t)
    \/ \E t \in Paths : UpdChk(t)
    \/ \E t \in Paths : UpdOk(t)
    \/ \E t \in Paths : UpdFail(t)
    \/ PassDone
    \/ PassFailed
    \/ Reconcile
    \/ \E p \in Tree : DelStart(p)
    \/ \E p \in Tree : DelOk(p)
    \/ \E p \in Tree : DelFail(p)
    \/ Persist
    \/ FsChange

Spec == Init /\ [][Next]_vars

\* One cycle from an empty store, with no failing command and a filesystem
\* that stays as it is.
InitFresh ==
    /\ fs \in FsStates
    /\ objectMap = <<>>
    /\ file = <<>>
    /\ pc = "sleep"
    /\ tr = EmptyBag
    /\ ntr = EmptyBag
    /\ task = NoJobs
    /\ erw = FALSE
    /\ passNo = 0
    /\ deletedQueue = NoJobs
    /\ dtask = NoJobs
    /\ result = "none"
    /\ cycle = MaxCycles - 1
    /\ nextId = RootId + 1
    /\ fails = MaxFail
    /\ fsOps = MaxFsOps
    /\ hist = InitHist

NextFresh ==
    \/ CycleStart
    \/ StartPass
    \/ \E t \in Paths : Load(t)
    \/ \E t \in Paths : LoadParent(t)
    \/ \E t \in Paths : ParentLocked(t)
    \/ \E t \in Paths : Stat(t)
    \/ \E t \in Paths : Store(t)
    \/ \E t \in Paths : ExecOk(t)
    \/ \E t \in Paths : UpdChk(t)
    \/ \E t \in Paths : UpdOk(t)
    \/ PassDone
    \/ Reconcile
    \/ Persist

SpecFresh == InitFresh /\ [][NextFresh]_vars

\* The entry a cycle leaves for a path of the tree: the backend's identifiers
\* are handed out parent first, so along the tree's one branch a path at depth
\* d gets the d-th of them.
StoredObject(f, p) ==
    [GDId |-> RootId + Depth(p),
     GDPId |-> RootId + Depth(p) - 1,
     LastMod |-> IF IsDirPath(p) THEN 0 ELSE f[p].mod,
     Size |-> f[p].size]

\* The stores that a cycle which ran its jobs one after the other has saved.
Stores == {[p \in Present(f) |-> StoredObject(f, p)] : f \in FsStates}

\* The program started with an object_map.json that an earlier run has saved,
\* over a filesystem that may have changed since.
InitStored ==
    /\ fs \in FsStates
    /\ objectMap \in Stores
    /\ file = objectMap
    /\ pc = "sleep"
    /\ tr = EmptyBag
    /\ ntr = EmptyBag
    /\ task = NoJobs
    /\ erw = FALSE
    /\ passNo = 0
    /\ deletedQueue = NoJobs
    /\ dtask = NoJobs
    /\ result = "none"
    /\ cycle = 0
    /\ nextId = RootId + Cardinality(Tree) + 1
    /\ fails = 0
    /\ fsOps = 0
    /\ hist = InitHist

SpecStored == InitStored /\ [][Next]_vars

\* The steps of the job of t: a worker of the pool runs the job's closure,
\* and a backend command that the job has issued is answered.
JobMove(t) ==
    \/ Load(t) \/ LoadParent(t) \/ ParentLocked(t) \/ Stat(t) \/ Store(t)
    \/ ExecOk(t) \/ ExecFail(t) \/ UpdChk(t) \/ UpdOk(t) \/ UpdFail(t)

\* syncFiles goes on when it can, the pool's workers run the jobs they are
\* given, and every backend command is answered.
Fairness ==
    /\ WF_vars(StartPass)
    /\ WF_vars(PassDone)
    /\ WF_vars(PassFailed)
    /\ WF_vars(Reconcile)
    /\ \A t \in Paths : WF_vars(JobMove(t))

\* One cycle, started from a saved store, over a filesystem that stays as it
\* is while the cycle runs.  A job that the pool runs again after an error may
\* fail again: MaxFail + LiveMoreFail commands may fail.
InitLive ==
    /\ fs \in FsStates
    /\ objectMap \in Stores
    /\ file = objectMap
    /\ pc = "sleep"
    /\ tr = EmptyBag
    /\ ntr = EmptyBag
    /\ task = NoJobs
    /\ erw = FALSE
    /\ passNo = 0
    /\ deletedQueue = NoJobs
    /\ dtask = NoJobs
    /\ result = "none"
    /\ cycle = MaxCycles - 1
    /\ nextId = RootId + Cardinality(Tree) + 1
    /\ fails = 0 - LiveMoreFail
    /\ fsOps = MaxFsOps
    /\ hist = InitHist

NextLive ==
    \/ CycleStart
    \/ StartPass
    \/ \E t \in Paths : JobMove(t)
    \/ PassDone
    \/ PassFailed
    \/ Reconcile
    \/ \E p \in Tree : DelStart(p)
    \/ \E p \in Tree : DelOk(p)
    \/ \E p \in Tree : DelFail(p)
    \/ Persist

SpecLive == InitLive /\ [][NextLive]_vars /\ Fairness

----------------------------------------------------------------------------
(* Properties *)

\* The jobs with the creation command of p in flight.
InFlight(p) ==
    {t \in DOMAIN task :
        \E i \in 1..Len(task[t].stack) :
            task[t].stack[i].loc = p /\ task[t].stack[i].pc = "exec"}

C2_AtMostOneCreation ==
    \A p \in Tree :
        /\ Cardinality(InFlight(p)) <= 1
        /\ hist.created[p] <= 1

C2_Witness ==
    \E p \in Tree :
        /\ hist.execFailed[p] = 1
        /\ hist.created[p] = 1
        /\ hist.creates[p] = 2

\* C3: while the creation command of a path is in flight, the path's parent
\* is the root or has an entry with a GDId, the placeholder's GDPId is that
\* GDId, and it is not empty.
C3_ParentBeforeChild ==
    \A p \in Tree :
        InFlight(p) # {} =>
            LET par == loadObject(objectMap, Dir(p)) IN
            /\ par.loaded
            /\ par.object.GDId # EmptyId
            /\ p \in DOMAIN objectMap
            /\ objectMap[p].GDId = EmptyId
            /\ objectMap[p].GDPId = par.object.GDId

C3_Witness ==
    \E p \in Tree :
        /\ Dir(p) # Root
        /\ InFlight(p) # {}
        /\ InFlight(Dir(p)) = {}
        /\ \E t \in DOMAIN task : t # p /\ t # Dir(p) /\ Busy(t)

\* The depth of the deepest path the cycle's first walk met.
WalkDepths == {Depth(wr.loc) : wr \in hist.walk}

ResolveEnded == pc = "loop" /\ BagToSet(tr) = {} /\ passNo >= 1

\* C4: from an empty store and with no failure, a cycle over a tree whose
\* deepest path is D >= 1 levels below the root starts at most D resolve
\* passes.
C4_ConvergenceBound ==
    (\E d \in WalkDepths : d >= 1) => \E d \in WalkDepths : passNo <= d

C4_Witness ==
    /\ ResolveEnded
    /\ passNo = 3
    /\ \A d \in WalkDepths : d <= 3

\* C5 as stated: when the resolve loop ends without an error, every path of
\* the first walk but the root has an entry with a GDId.
C5_ResolveComplete ==
    ResolveEnded /\ ~erw =>
        \A wr \in hist.walk :
            wr.loc # Root =>
                /\ wr.loc \in DOMAIN objectMap
                /\ objectMap[wr.loc].GDId # EmptyId

\* C6 as stated: a cycle that follows a cycle that ended without an error,
\* with the filesystem unchanged since that one began, issues no create,
\* update or delete command and leaves the store as it found it.
C6_IdempotentResync ==
    pc # "sleep" /\ hist.quiet = 1 /\ ~hist.dirty =>
        /\ \A p \in Tree :
              hist.creates[p] = 0 /\ hist.updates[p] = 0 /\ hist.deletes[p] = 0
        /\ objectMap = hist.store0

\* C7: for a file whose entry was there and had a GDId when the cycle began,
\* the update command is issued in the cycle iff the walk's modification time
\* is later than the stored one and the walk's size differs from the stored
\* one, and then once; an update that succeeds leaves the walk's values in
\* the entry, anything else leaves the stored ones; no job of a directory
\* gets to the update.
C7_ModificationDetection ==
    /\ \A t \in DOMAIN task :
           task[t].st \in {"updchk", "updating"} => ~task[t].wr.isDir
    /\ \A wr \in hist.walk :
           LET p == wr.loc IN
           p \in Files /\ p \in DOMAIN hist.store0 =>
               LET old == hist.store0[p]
                   need == wr.modTimeUnix > old.LastMod /\ wr.size # old.Size
                   over == passNo >= 1 /\ (p \in DOMAIN task => task[p].st = "done")
               IN /\ old.GDId # EmptyId
                  /\ hist.updates[p] <= 1
                  /\ hist.updates[p] = 1 => need
                  /\ over /\ need => hist.updates[p] = 1
                  /\ hist.updOk[p] <= hist.updates[p]
                  /\ p \in DOMAIN objectMap =>
                        IF hist.updOk[p] = 1
                        THEN /\ objectMap[p].LastMod = wr.modTimeUnix
                             /\ objectMap[p].Size = wr.size
                        ELSE /\ objectMap[p].LastMod = old.LastMod
                             /\ objectMap[p].Size = old.Size

C7_Witness ==
    \E wr \in hist.walk :
        /\ wr.loc \in Files
        /\ wr.loc \in DOMAIN hist.store0
        /\ wr.loc \in DOMAIN objectMap
        /\ hist.updOk[wr.loc] = 1
        /\ objectMap[wr.loc].LastMod > hist.store0[wr.loc].LastMod
        /\ objectMap[wr.loc].Size # hist.store0[wr.loc].Size

\* C8: in the deletion phase, each entry of the store whose path the second
\* walk did not meet gets one delete command, on its GDId, and is removed
\* when the command has answered, whatever the answer; an entry whose path
\* the walk met gets no command and stays as it is.
C8_DeletionReconciliation ==
    pc = "waitDel" =>
        /\ \A p \in Tree \ DOMAIN hist.snap : hist.deletes[p] = 0
        /\ \A p \in DOMAIN hist.snap :
              IF p \notin hist.walk2
              THEN /\ p \in DOMAIN dtask
                   /\ hist.deletes[p] = IF dtask[p] = "queued" THEN 0 ELSE 1
                   /\ dtask[p] # "queued" => hist.delIds[p] = hist.snap[p].GDId
                   /\ (dtask[p] = "done") = (p \notin DOMAIN objectMap)
              ELSE /\ p \notin DOMAIN dtask
                   /\ hist.deletes[p] = 0
                   /\ p \in DOMAIN objectMap
                   /\ objectMap[p] = hist.snap[p]

C8_Witness ==
    /\ pc = "waitDel"
    /\ \A p \in DOMAIN dtask : dtask[p] = "done"
    /\ \E p \in DOMAIN dtask : hist.delFailed[p] = 1 /\ p \notin DOMAIN objectMap
    /\ \E p \in DOMAIN dtask : hist.delFailed[p] = 0 /\ p \notin DOMAIN objectMap
    /\ \E p \in DOMAIN hist.snap : p \in hist.walk2 /\ p \in DOMAIN objectMap

\* A step of a job of the current pass.
JobStep ==
    \E t \in Paths :
        \/ Load(t) \/ LoadParent(t) \/ ParentLocked(t) \/ Stat(t) \/ Store(t)
        \/ ExecOk(t) \/ UpdChk(t) \/ UpdOk(t)

\* C9: once the pool holds an error, the jobs of the pass go on until all are
\* done; no pass is started, no deletion job is made or run, the file is not
\* written, and the cycle returns the error.
C9_AbortOnError ==
    /\ [](pc = "wait" /\ erw /\ ~AllDone => ENABLED JobStep)
    /\ [][pc = "wait" /\ erw =>
            /\ erw'
            /\ passNo' = passNo
            /\ file' = file
            /\ dtask' = dtask
            /\ hist'.deletes = hist.deletes
            /\ pc' \in {"wait", "sleep"}
            /\ pc' = "sleep" => AllDone /\ result' = "err" /\ cycle' = cycle + 1]_vars

C9_Witness ==
    /\ pc = "wait"
    /\ erw
    /\ \E t \in DOMAIN task : Busy(t)
    /\ \E t \in DOMAIN task : task[t].st = "queued"
    /\ objectMap # file

\* C10: a call of storeObject stores the candidate under the key and reports
\* stored iff the key had no entry; otherwise it reports not stored and
\* leaves every entry of the map as it was.
C10_CompareAndInsert ==
    [][\A t \in DOMAIN task :
          ( /\ task[t].st = "run"
            /\ Top(task[t].stack).pc = "store"
            /\ (t \in DOMAIN task' => task'[t] # task[t]) ) =>
              LET f == Top(task[t].stack) IN
              IF f.loc \notin DOMAIN objectMap
              THEN /\ DOMAIN objectMap' = DOMAIN objectMap \cup {f.loc}
                   /\ objectMap'[f.loc] = f.cand
                   /\ \A k \in DOMAIN objectMap : objectMap'[k] = objectMap[k]
                   /\ task'[t].st = "run"
                   /\ Top(task'[t].stack).pc = "exec"
              ELSE /\ objectMap' = objectMap
                   /\ task'[t].st = "done"
                   /\ ntr' = ntr (+) SetToBag({task[t].wr})]_vars

C10_Witness ==
    \E p \in Tree :
        /\ hist.lostRace[p]
        /\ p \in DOMAIN objectMap
        /\ \E t \in DOMAIN task :
              /\ task[t].st = "run"
              /\ Top(task[t].stack).loc = p
              /\ Top(task[t].stack).pc = "exec"

\* A call of NewObject that was made for the parent of a path without an
\* entry (line 109) and is about to report alreadyExisted or locked: the
\* path is there by now (lines 100-103), its own parent is locked (line 120)
\* or its placeholder lost the race (lines 143-146).
RecursionDefers(t) ==
    /\ t \in DOMAIN task
    /\ task[t].st = "run"
    /\ Len(task[t].stack) >= 2
    /\ LET f == Top(task[t].stack) IN
       \/ f.pc = "load" /\ loadObject(objectMap, f.loc).loaded
       \/ f.pc = "isLocked" /\ isLocked(PObj(f))
       \/ f.pc = "store" /\ f.loc \in DOMAIN objectMap

\* C11 as stated: when the resolution of the parent reports alreadyExisted
\* or locked, the call creates nothing and the job's path is put on the
\* pending list, whether the parent was reported locked or not.
C11_DeferredRetry ==
    [][\A t \in Paths :
          ( /\ RecursionDefers(t)
            /\ t \in DOMAIN task'
            /\ task'[t] # task[t] ) =>
              /\ objectMap' = objectMap
              /\ hist'.creates = hist.creates
              /\ task'[t].st = "done"
              /\ ntr' = ntr (+) SetToBag({task[t].wr})]_vars

\* the store without the entry of p
Without(m, p) == [k \in DOMAIN m \ {p} |-> m[k]]

\* C12: when the creation command of a path fails, the step removes the
\* path's placeholder and nothing else, the job gets the error (the pool
\* runs it again, or keeps the error once the retries are used up) and is
\* not put on the pending list; the path can be stored and created afterwards.
C12_CreationRollback ==
    [][\A t \in Paths :
          ( /\ InNewObject(t, "exec")
            /\ task'[t] # task[t]
            /\ fails' # fails ) =>
              LET p == Top(task[t].stack).loc IN
              /\ p \in DOMAIN objectMap
              /\ objectMap[p].GDId = EmptyId
              /\ p \notin DOMAIN objectMap'
              /\ objectMap' = Without(objectMap, p)
              /\ ntr' = ntr
              /\ nextId' = nextId
              /\ IF task[t].tries < SyncRetry
                 THEN /\ task'[t].st = "run"
                      /\ task'[t].tries = task[t].tries + 1
                      /\ task'[t].stack = <<NewFrame(task[t].wr.loc, hist')>>
                      /\ erw' = erw
                 ELSE /\ task'[t].st = "done"
                      /\ erw']_vars

C12_Witness ==
    \E p \in Tree :
        /\ hist.execFailed[p] = 1
        /\ hist.creates[p] = 2
        /\ p \in DOMAIN objectMap
        /\ objectMap[p].GDId = EmptyId
        /\ InFlight(p) # {}

\* The job of p in the current cycle has run.
JobOver(p) ==
    /\ pc # "sleep"
    /\ passNo >= 1
    /\ p \in DOMAIN task => task[p].st = "done"

\* C13: a step in which the update command of a file fails leaves the store
\* as it is, sets no error, requeues nothing and ends the job; and in the
\* cycle after one in which the update of a file's entry failed, the
\* filesystem unchanged since, the job of the file issues the update again.
C13_UpdateFailureSwallowed ==
    /\ [][\A t \in Paths :
             ( /\ t \in DOMAIN task
               /\ task[t].st = "updating"
               /\ t \in DOMAIN task'
               /\ task'[t] # task[t]
               /\ fails' # fails ) =>
                 /\ objectMap' = objectMap
                 /\ erw' = erw
                 /\ ntr' = ntr
                 /\ pc' = pc
                 /\ task'[t].st = "done"
                 /\ hist'.updOk = hist.updOk]_vars
    /\ [](\A p \in Files :
             hist.updFailed[p] >= 1 /\ hist.updFailed[p] = cycle /\ JobOver(p) =>
                 hist.updates[p] = 1)

C13_Witness ==
    \E p \in Files :
        /\ hist.updFailed[p] >= 1
        /\ hist.updFailed[p] = cycle
        /\ JobOver(p)
        /\ hist.updOk[p] = 1
        /\ ~erw

\* The entries with an empty GDId.
Placeholders == {p \in DOMAIN objectMap : objectMap[p].GDId = EmptyId}

\* C14: a placeholder is in the store only while the one job that stored it
\* has its creation command in flight; the step that gives it a GDId or
\* removes it is a step of that job, which gives it a GDId and changes
\* nothing else of it, or removes it; an entry with a GDId never becomes a
\* placeholder again.
C14_PlaceholderLifecycle ==
    /\ [](\A p \in Placeholders : Cardinality(InFlight(p)) = 1)
    /\ [][\A p \in Placeholders :
             p \notin DOMAIN objectMap' \/ objectMap'[p] # objectMap[p] =>
                 \E t \in InFlight(p) :
                     /\ Top(task[t].stack).loc = p
                     /\ task'[t] # task[t]
                     /\ \A u \in DOMAIN task \ {t} :
                            u \in DOMAIN task' /\ task'[u].st = task[u].st
                     /\ \/ p \notin DOMAIN objectMap'
                        \/ /\ objectMap'[p].GDId # EmptyId
                           /\ objectMap'[p] =
                                 [objectMap[p] EXCEPT !.GDId = objectMap'[p].GDId]]_vars
    /\ [][\A p \in DOMAIN objectMap \ Placeholders :
             p \in DOMAIN objectMap' => objectMap'[p].GDId # EmptyId]_vars

C14_Witness ==
    \E p \in Placeholders :
        \E t \in DOMAIN task \ InFlight(p) :
            /\ task[t].st = "run"
            /\ Top(task[t].stack).loc = p
            /\ Top(task[t].stack).pc = "store"
            /\ hist.execFailed[p] = 1

\* C15: an entry with a GDId keeps its GDId and its GDPId in every step that
\* leaves it in the store.
C15_IdentityImmutable ==
    [][\A p \in DOMAIN objectMap \ Placeholders :
          p \in DOMAIN objectMap' =>
              /\ objectMap'[p].GDId = objectMap[p].GDId
              /\ objectMap'[p].GDPId = objectMap[p].GDPId]_vars

C15_Witness ==
    \E p \in DOMAIN objectMap \cap DOMAIN file :
        /\ file[p].GDId # EmptyId
        /\ objectMap[p].GDId = file[p].GDId
        /\ objectMap[p].GDPId = file[p].GDPId
        /\ objectMap[p].LastMod # file[p].LastMod
        /\ objectMap[p].Size # file[p].Size
        /\ \E q \in DOMAIN file : q \notin DOMAIN objectMap

\* C16 as stated: the entry of a directory has LastMod = 0, and no update
\* command is issued on the GDId of a directory's entry.
C16_DirectoryLastModZero ==
    /\ \A p \in DOMAIN objectMap : IsDirPath(p) => objectMap[p].LastMod = 0
    /\ \A p \in Tree : IsDirPath(p) => hist.updates[p] = 0

\* The job's call of NewObject is about to return locked: the path or one of
\* its ancestors has a placeholder (lines 100-103), the parent at hand is
\* locked (line 120), or the placeholder lost the race (lines 143-146).
LockedReturn(t) ==
    /\ InNewObject(t, Top(CurStack(t)).pc)
    /\ LET f == Top(CurStack(t))
           l == loadObject(objectMap, f.loc)
       IN \/ f.pc = "load" /\ l.loaded /\ isLocked(l.object)
          \/ f.pc = "isLocked" /\ isLocked(PObj(f))
          \/ f.pc = "store" /\ f.loc \in DOMAIN objectMap

\* The step is a step of job t.
Moved(t) ==
    /\ t \in DOMAIN task
    /\ t \in DOMAIN task'
    /\ task[t].st # "done"
    /\ \/ task'[t].st # task[t].st
       \/ task'[t].tries # task[t].tries
       \/ Len(task'[t].stack) # Len(task[t].stack)
       \/ task[t].stack # <<>> /\ task'[t].stack # <<>> /\
              Top(task'[t].stack).pc # Top(task[t].stack).pc

\* C17: the step in which a job's NewObject returns locked appends the job's
\* entry to the pending list, sets no error and ends the job; no other step
\* of a job changes the list; no entry is on the list twice; and the next
\* pass is fed with the list.
C17_RequeueExactness ==
    /\ [][\A t \in Paths :
             Moved(t) =>
                 IF LockedReturn(t)
                 THEN /\ ntr' = ntr (+) SetToBag({task[t].wr})
                      /\ erw' = erw
                      /\ task'[t].st = "done"
                      /\ pc' = pc
                 ELSE ntr' = ntr]_vars
    /\ [](pc = "wait" =>
             \A wr \in BagToSet(ntr) :
                 /\ CopiesIn(wr, ntr) = 1
                 /\ wr.loc \in DOMAIN task
                 /\ task[wr.loc].st = "done"
                 /\ task[wr.loc].wr = wr)
    /\ [][pc = "wait" /\ pc' = "loop" => tr' = ntr]_vars

C17_Witness ==
    /\ pc = "wait"
    /\ AllDone
    /\ ~erw
    /\ Cardinality(BagToSet(ntr)) = 2
    /\ \E p \in Tree : hist.execFailed[p] = 1

\* C18: with the workers running their jobs and every backend command
\* answered, the resolve loop of a cycle is left, for the deletion phase or
\* with an error; and a pass is never held back by the model's bound on the
\* number of passes.
C18_ResolveTerminates ==
    /\ (pc \in {"loop", "wait"}) ~> (pc \in {"waitDel", "sleep"})
    /\ [](pc = "loop" /\ BagToSet(tr) # {} => passNo < MaxPasses)

C18_Witness ==
    /\ pc = "waitDel"
    /\ passNo >= 2
    /\ fails = MaxFail
    /\ \E p \in DOMAIN hist.store0 : p \in DOMAIN objectMap

\* syncFiles is not waiting for a job of a resolve pass.
PassOver == pc \in {"sleep", "loop", "waitDel"} \/ (pc = "wait" /\ AllDone)

\* C19: when the jobs of a resolve pass are all done, whether one of them
\* left an error or not, and from then on until the next pass starts, no
\* entry of the store is a placeholder; nor is any entry of the snapshot of
\* the deletion phase or of the saved file.
C19_NoPlaceholderSurvives ==
    /\ PassOver => Placeholders = {}
    /\ \A p \in DOMAIN deletedQueue : deletedQueue[p].GDId # EmptyId
    /\ \A p \in DOMAIN file : file[p].GDId # EmptyId

C19_Witness ==
    /\ pc = "wait"
    /\ AllDone
    /\ erw
    /\ \E p \in Tree : hist.execFailed[p] = 1 /\ p \notin DOMAIN objectMap
    /\ objectMap # <<>>

\* Every entry's parent is the root or has an entry, and the entry's GDPId is
\* the GDId of its parent.
ParentClosed(m) ==
    \A p \in DOMAIN m :
        LET par == loadObject(m, Dir(p)) IN
        /\ par.loaded
        /\ m[p].GDPId = par.object.GDId

\* C20: the store that a cycle saves, and the store at the end of the
\* deletion phase from which it is saved, are closed under parents.
C20_ParentClosure ==
    /\ ParentClosed(file)
    /\ pc = "waitDel" /\ (\A p \in DOMAIN dtask : dtask[p] = "done") =>
           ParentClosed(objectMap)

C20_Witness ==
    /\ pc = "sleep"
    /\ result = "ok"
    /\ file = objectMap
    /\ \E p \in Tree : hist.deletes[p] = 1 /\ p \notin DOMAIN file
    /\ \E q \in DOMAIN file : Dir(q) # Root /\ hist.creates[q] = 1

====
